---- MODULE Spec2Model ----
(***************************************************************************)
(* Model of the vs-roxy reverse proxy (class ProxyServer): the route       *)
(* table, the matcher findMatchingRoute, the request handler handleRequest *)
(* and the forwarder proxyRequest with its upstream response, error and    *)
(* timeout callbacks.                                                      *)
(*                                                                         *)
(* Strings that the code inspects character by character (route paths and  *)
(* request urls) are sequences of one-character strings; targets are       *)
(* opaque strings.  Each callback of the code runs to completion, so each  *)
(* is one action.                                                          *)
(***************************************************************************)
EXTENDS Integers, Sequences, FiniteSets, TLC

(***************************************************************************)
(* Bounds of the model.                                                    *)
(***************************************************************************)
MaxPathLen == 3
MaxRoutes == 2
MaxReqs == 2
MaxServers == 2
MaxCalls == 2

Chars == {"/", "a"}

ReqIds == 1..MaxReqs

\* Server objects that exist at one time, and callers of the lifecycle API.
ServerIds == 1..MaxServers
CallIds == 1..MaxCalls

\* constructor(port: number = 8080)
DefaultPort == 8080

Ports == {DefaultPort, DefaultPort + 1}

\* All sequences over S of length 0..n.
SeqsUpTo(S, n) == UNION {[1..k -> S] : k \in 0..n}

\* Paths of 1..MaxPathLen characters that start with "/".
SlashPaths == {p \in SeqsUpTo(Chars, MaxPathLen) : Len(p) >= 1 /\ p[1] = "/"}

(***************************************************************************)
(* String helpers, as the JavaScript string methods the code calls.        *)
(***************************************************************************)
StartsWith(s, p) == Len(p) <= Len(s) /\ SubSeq(s, 1, Len(p)) = p

EndsWithSlash(s) == Len(s) >= 1 /\ s[Len(s)] = "/"

\* s.slice(0, -1)
DropLast(s) == SubSeq(s, 1, Len(s) - 1)

\* s.substring(n)
Substring(s, n) == SubSeq(s, n + 1, Len(s))

(***************************************************************************)
(* Targets.  new URL(t) throws unless t parses as an absolute URL.         *)
(***************************************************************************)
ValidTargets == {"http://a", "http://b"}

Targets == ValidTargets \cup {"", "not a url"}

IsValidUrl(t) == t \in ValidTargets

(***************************************************************************)
(* Values of the model.                                                    *)
(***************************************************************************)
Route(p, t, e) == [path |-> p, target |-> t, enabled |-> e]

\* null, and a non-null reference to a route entry
Null == <<>>
Some(r) == <<r>>

NoHeaders == [h \in {} |-> ""]

\* Object spread / writeHead merge: the entries of b override those of a.
Merge(a, b) ==
  [h \in DOMAIN a \cup DOMAIN b |-> IF h \in DOMAIN b THEN b[h] ELSE a[h]]

EmptyBody == <<>>

Json(err, text, url, target, avail) ==
  << [error |-> err,
      message |-> [text |-> text, url |-> url, target |-> target],
      availableRoutes |-> avail] >>

\* A request slot before a request has arrived on it.
IdleReq ==
  [pc |-> "idle", method |-> "", url |-> <<>>,
   matcherCalls |-> 0, route |-> Null,
   headers |-> NoHeaders, headersSent |-> FALSE, status |-> 0,
   writeHeadCalls |-> 0, body |-> EmptyBody, ended |-> FALSE,
   outCount |-> 0, outPath |-> <<>>, outMethod |-> "",
   up |-> "none", timedOut |-> FALSE, errored |-> FALSE,
   inHeaders |-> NoHeaders, outHeaders |-> NoHeaders]

\* A slot that holds no http.Server object.
NoServer ==
  [live |-> FALSE, handle |-> FALSE, evt |-> "none", closing |-> FALSE,
   port |-> DefaultPort]

\* A caller of start(), stop() or restart() that has no call yet.
\* The outcome of the latest RouteManager call: its name and the message of
\* the error it threw, "" when it returned.
Outcome(op, err) == [op |-> op, err |-> err]

NoOutcome == Outcome("none", "")

NoCall == [op |-> "none", st |-> "none", err |-> "", phase |-> "none", srv |-> 0]

\* routes: this.routes.  reqs: the inbound requests.  server: this.server
\* (0 is null).  port: this.port.  srv: the http.Server objects, each with its
\* listening handle, the event listen() queued, whether close() was called,
\* and the port it was bound to.  calls: the promises of start(), stop() and
\* restart() calls.  config: the stored setting roxy.routes.  handed: the
\* array a caller of getRoutes() holds.
VARIABLES routes, reqs, server, port, srv, calls, config, last, exists, handed

vars == <<routes, reqs, server, port, srv, calls, config, last, exists, handed>>

\* The lifecycle state of the instance.
life == <<server, port, srv, calls>>

(***************************************************************************)
(* ServerResponse: setHeader, writeHead, end.                              *)
(***************************************************************************)
CorsHeaders ==
  [h \in {"Access-Control-Allow-Origin", "Access-Control-Allow-Methods",
          "Access-Control-Allow-Headers", "Access-Control-Allow-Credentials"} |->
     CASE h = "Access-Control-Allow-Origin" -> "*"
       [] h = "Access-Control-Allow-Methods" -> "GET, POST, PUT, DELETE, OPTIONS, PATCH"
       [] h = "Access-Control-Allow-Headers" ->
            "Origin, X-Requested-With, Content-Type, Accept, Authorization"
       [] OTHER -> "true"]

ContentTypeJson == [h \in {"Content-Type"} |-> "application/json"]

SetCorsHeaders(r) == [r EXCEPT !.headers = Merge(@, CorsHeaders)]

\* res.writeHead(status, hdrs).  A call after the headers were sent throws and
\* writes nothing; the call is still counted.
WriteHead(r, status, hdrs) ==
  IF r.headersSent
    THEN [r EXCEPT !.writeHeadCalls = @ + 1]
    ELSE [r EXCEPT !.writeHeadCalls = @ + 1, !.status = status,
                   !.headers = Merge(@, hdrs), !.headersSent = TRUE]

\* res.end(body)
End(r, body) == [r EXCEPT !.body = body, !.ended = TRUE]

(***************************************************************************)
(* findMatchingRoute                                                       *)
(***************************************************************************)
\* A filter that forgets the enabled flag.
IsCandidateIgnoringEnabled(route) == route.path # <<>> /\ route.target # ""

\* route => route.enabled && route.path && route.target
IsCandidate(route) == route.enabled /\ route.path # <<>> /\ route.target # ""

\* Insert r behind every entry whose path is at least as long (stable order).
RECURSIVE InsertByLength(_, _)
InsertByLength(r, sorted) ==
  IF sorted = <<>> THEN <<r>>
  ELSE IF Len(Head(sorted).path) >= Len(r.path)
         THEN <<Head(sorted)>> \o InsertByLength(r, Tail(sorted))
         ELSE <<r>> \o sorted

\* .sort((a, b) => b.path.length - a.path.length), a stable sort
RECURSIVE SortByPathLength(_)
SortByPathLength(s) ==
  IF s = <<>> THEN <<>>
  ELSE InsertByLength(s[Len(s)], SortByPathLength(DropLast(s)))

\* The candidates left in table order.
UnsortedRoutes(table) == SelectSeq(table, IsCandidate)

SortedRoutes(table) == SortByPathLength(SelectSeq(table, IsCandidate))

\* The arrays after the first statement of findMatchingRoute: filter()
\* returns a new array and sort() sorts the array it is called on, here the
\* filtered copy, so this.routes is the array it was.
LookupArraysInPlace(table) ==
  [routes |-> SortByPathLength(table),
   sortedRoutes |-> SortByPathLength(SelectSeq(table, IsCandidate))]

LookupArrays(table) ==
  [routes |-> table,
   sortedRoutes |-> SortByPathLength(SelectSeq(table, IsCandidate))]

\* The test of the loop body for one route.
RouteMatches(route, requestPath) ==
  LET routePath == IF EndsWithSlash(route.path) THEN DropLast(route.path)
                   ELSE route.path
      normalizedRequestPath == IF EndsWithSlash(requestPath)
                                 THEN DropLast(requestPath) ELSE requestPath
  IN  routePath = <<"/">> \/ StartsWith(normalizedRequestPath, routePath)

RECURSIVE FirstMatch(_, _)
FirstMatch(sortedRoutes, requestPath) ==
  IF sortedRoutes = <<>> THEN Null
  ELSE IF RouteMatches(Head(sortedRoutes), requestPath)
         THEN Some(Head(sortedRoutes))
         ELSE FirstMatch(Tail(sortedRoutes), requestPath)

FindMatchingRoute(table, requestPath) ==
  FirstMatch(SortedRoutes(table), requestPath)

(***************************************************************************)
(* proxyRequest                                                            *)
(***************************************************************************)
\* A rewrite that forgets to prepend "/" to the remainder.
TargetPathNoSlash(route, url) ==
  LET targetPath == IF url = <<>> THEN <<"/">> ELSE url
  IN  IF route.path # <<"/">> /\ StartsWith(targetPath, route.path)
        THEN Substring(targetPath, Len(route.path))
        ELSE targetPath

\* The outbound path: the route prefix removed from the inbound url.
TargetPath(route, url) ==
  LET targetPath == IF url = <<>> THEN <<"/">> ELSE url
  IN  IF route.path # <<"/">> /\ StartsWith(targetPath, route.path)
        THEN LET rest == Substring(targetPath, Len(route.path))
             IN  IF ~StartsWith(rest, <<"/">>) THEN <<"/">> \o rest ELSE rest
        ELSE targetPath

\* The catch block: new URL(route.target) threw.
OnCatch(r) ==
  IF ~r.headersSent
    THEN End(WriteHead(r, 500, ContentTypeJson),
             Json("Internal Server Error", "", <<>>, "", <<>>))
    ELSE r

\* targetUrl.host
HostOf(t) == IF t = "http://a" THEN "a" ELSE "b"

\* Outbound headers that are the inbound ones, Host untouched.
ProxyHeadersKeepHost(hdrs, t) == hdrs

\* headers: { ...req.headers, host: targetUrl.host }
ProxyHeaders(hdrs, t) == Merge(hdrs, [h \in {"host"} |-> HostOf(t)])

\* http.request(proxyOptions, ...), with both handlers registered and the
\* request body piped: one outbound request is in flight.
IssueOutbound(r, route) ==
  [r EXCEPT !.outCount = @ + 1,
            !.outPath = TargetPath(route, r.url),
            !.outMethod = r.method,
            !.outHeaders = ProxyHeaders(r.inHeaders, route.target),
            !.up = "pending"]

\* A proxyRequest that neither parses the target nor catches.
ProxyRequestNoCatch(r, route) ==
  IssueOutbound([r EXCEPT !.route = Some(route)], route)

ProxyRequest(r, route) ==
  LET r1 == [r EXCEPT !.route = Some(route)]
  IN  IF ~IsValidUrl(route.target) THEN OnCatch(r1) ELSE IssueOutbound(r1, route)

(***************************************************************************)
(* handleRequest                                                           *)
(***************************************************************************)
\* An availableRoutes that lists every entry, disabled ones included.
AvailableRoutesUnfiltered(table) ==
  [i \in 1..Len(table) |-> [path |-> table[i].path, target |-> table[i].target]]

\* this.routes.filter(r => r.enabled).map(r => ({path, target}))
AvailableRoutes(table) ==
  LET enabledRoutes == SelectSeq(table, LAMBDA r : r.enabled)
  IN  [i \in 1..Len(enabledRoutes) |->
         [path |-> enabledRoutes[i].path, target |-> enabledRoutes[i].target]]

\* handleRequest past the OPTIONS test: match, then 404 or forward.
RouteRequest(r, table) ==
  LET requestUrl == IF r.url = <<>> THEN <<"/">> ELSE r.url
      matchingRoute == FindMatchingRoute(table, requestUrl)
      r1 == [r EXCEPT !.matcherCalls = @ + 1]
  IN  IF matchingRoute = Null
        THEN End(WriteHead(r1, 404, ContentTypeJson),
                 Json("Not Found", "No route configured for ", requestUrl, "",
                      AvailableRoutes(table)))
        ELSE ProxyRequest(r1, matchingRoute[1])

\* A handler that lacks the OPTIONS short-circuit.
HandleRequestNoPreflight(r, table, method, url) ==
  RouteRequest(SetCorsHeaders([r EXCEPT !.pc = "handled", !.method = method,
                                        !.url = url]), table)

\* A handler that matches against the table the instance was constructed
\* with instead of the current one.
HandleRequestStale(r, table, method, url) ==
  LET r1 == SetCorsHeaders([r EXCEPT !.pc = "handled", !.method = method,
                                     !.url = url])
  IN  IF method = "OPTIONS"
        THEN End(WriteHead(r1, 200, NoHeaders), EmptyBody)
        ELSE RouteRequest(r1, <<>>)

HandleRequest(r, table, method, url) ==
  LET r1 == SetCorsHeaders([r EXCEPT !.pc = "handled", !.method = method,
                                     !.url = url])
  IN  IF method = "OPTIONS"
        THEN End(WriteHead(r1, 200, NoHeaders), EmptyBody)
        ELSE RouteRequest(r1, table)

(***************************************************************************)
(* The callbacks proxyRequest registers on the outbound request.           *)
(***************************************************************************)
\* (proxyRes) => { res.writeHead(proxyRes.statusCode || 500, proxyRes.headers);
\*                proxyRes.pipe(res) }
OnProxyResponse(r, statusCode, hdrs) ==
  WriteHead(r, IF statusCode = 0 THEN 500 ELSE statusCode, hdrs)

\* The pipe ends the caller's response when the upstream body ends.
OnProxyEnd(r) == [r EXCEPT !.ended = TRUE]

\* An error handler that forgets to answer the caller.
OnProxyErrorSilent(r) == r

\* An error handler that answers without testing headersSent.
OnProxyErrorUnguarded(r) ==
  End(WriteHead(r, 502, ContentTypeJson),
      Json("Bad Gateway", "Failed to connect to ", <<>>, r.route[1].target, <<>>))

\* An error handler that issues the outbound request again.
OnProxyErrorRetry(r) == IssueOutbound(r, r.route[1])

\* proxyReq.on('error', ...)
OnProxyError(r) ==
  IF ~r.headersSent
    THEN End(WriteHead(r, 502, ContentTypeJson),
             Json("Bad Gateway", "Failed to connect to ", <<>>,
                  r.route[1].target, <<>>))
    ELSE r

\* proxyReq.destroy(): before a response the outbound request then emits an
\* error (socket hang up); after one it is closed silently.
Destroy(r) ==
  [r EXCEPT !.up = IF r.up = "pending" THEN "aborting" ELSE "destroyed"]

\* A timeout handler that answers without testing headersSent.
OnProxyTimeoutUnguarded(r) ==
  End(WriteHead(Destroy(r), 504, ContentTypeJson),
      Json("Gateway Timeout", "Request to ... timed out", <<>>,
           r.route[1].target, <<>>))

\* proxyReq.setTimeout(30000, ...)
OnProxyTimeout(r) ==
  LET r1 == Destroy(r)
  IN  IF ~r1.headersSent
        THEN End(WriteHead(r1, 504, ContentTypeJson),
                 Json("Gateway Timeout", "Request to ... timed out", <<>>,
                      r1.route[1].target, <<>>))
        ELSE r1

(***************************************************************************)
(* Inputs.                                                                 *)
(***************************************************************************)
Methods == {"GET", "OPTIONS"}

\* req.headers of a request addressed to the proxy, names in lower case.
ProxyHost == [h \in {"host"} |-> "proxy"]

\* Request urls and route tables of the server specification.
ServeUrls == {<<"/">>, <<"/", "a">>}

ServeTables ==
  { <<>>,
    <<Route(<<"/", "a">>, "http://a", TRUE)>>,
    <<Route(<<"/">>, "http://b", TRUE), Route(<<"/", "a">>, "http://a", TRUE)>>,
    <<Route(<<"/">>, "not a url", TRUE)>> }

\* What the upstream answers.
UpstreamStatuses == {200, 404}

UpstreamHeaders ==
  {NoHeaders, [h \in {"Access-Control-Allow-Origin"} |-> "http://x"]}

\* Route entries and tables of the matcher specification: for every path an
\* enabled, a disabled and a target-less entry, and an entry with no path.
MatchRoutes ==
  {Route(p, "http://a", e) : p \in SlashPaths, e \in BOOLEAN}
    \cup {Route(p, "", TRUE) : p \in SlashPaths}
    \cup {Route(<<>>, "http://a", TRUE)}

MatchTables == SeqsUpTo(MatchRoutes, MaxRoutes)

(***************************************************************************)
(* The listener lifecycle: start, stop, restart, setPort, isRunning, and   *)
(* the listening, error and close events of the http.Server objects.       *)
(***************************************************************************)
\* isRunning()
IsRunning == server # 0

\* Some server object has a listening handle: connections are accepted.
Accepting == \E s \in ServerIds : srv[s].handle

HasFreeSlot(v) == \E s \in ServerIds : ~v[s].live

\* The slot of a newly created server object.
FreeSlot(v) ==
  CHOOSE s \in ServerIds : ~v[s].live /\ \A t \in ServerIds : t < s => v[t].live

\* Another listening handle of this process holds port p.
PortInUse(v, p) == \E s \in ServerIds : v[s].handle /\ v[s].port = p

\* http.createServer(...) and server.listen(p, ...): the handle is bound at
\* once or not at all, and 'listening' or 'error' is queued.
NewServer(p, ok) ==
  [live |-> TRUE, handle |-> ok, evt |-> IF ok THEN "listening" ELSE "error",
   closing |-> FALSE, port |-> p]

Call(op, st, err, phase, s) ==
  [op |-> op, st |-> st, err |-> err, phase |-> phase, srv |-> s]

\* A start() that lacks the test of this.server.
StartUnguarded(cur, v, cs, c, op, p, ok) ==
  LET s == FreeSlot(v)
  IN  [server |-> s,
       srv |-> [v EXCEPT ![s] = NewServer(p, ok)],
       calls |-> [cs EXCEPT ![c] = Call(op, "pending", "", "listen", s)]]

\* The body of start(), run for caller c as operation op, with this.server
\* = cur, the server objects v, the calls cs and this.port = p.
Start(cur, v, cs, c, op, p, ok) ==
  IF cur # 0
    THEN [server |-> cur, srv |-> v,
          calls |-> [cs EXCEPT ![c] =
                       Call(op, "rejected", "already running", "none", 0)]]
    ELSE LET s == FreeSlot(v)
         IN  [server |-> s,
              srv |-> [v EXCEPT ![s] = NewServer(p, ok)],
              calls |-> [cs EXCEPT ![c] = Call(op, "pending", "", "listen", s)]]

\* server.close(cb): the handle stops accepting at once; a queued
\* 'listening' is dropped; 'close' is emitted later.
Close(o) ==
  [o EXCEPT !.handle = FALSE, !.closing = TRUE,
            !.evt = IF @ = "listening" THEN "none" ELSE @]

\* A stop() that resolves without waiting for the close callback.
StopEager(cur, v, cs, c, op) ==
  IF cur = 0
    THEN [srv |-> v, calls |-> [cs EXCEPT ![c] = Call(op, "resolved", "", "none", 0)]]
    ELSE [srv |-> [v EXCEPT ![cur] = Close(@)],
          calls |-> [cs EXCEPT ![c] = Call(op, "resolved", "", "none", 0)]]

\* A stop() that forgets to resolve when there is no server.
StopNoResolve(cur, v, cs, c, op) ==
  IF cur = 0
    THEN [srv |-> v, calls |-> [cs EXCEPT ![c] = Call(op, "pending", "", "close", 0)]]
    ELSE [srv |-> [v EXCEPT ![cur] = Close(@)],
          calls |-> [cs EXCEPT ![c] = Call(op, "pending", "", "close", cur)]]

\* The body of stop() up to its return, for caller c as operation op.
Stop(cur, v, cs, c, op) ==
  IF cur = 0
    THEN [srv |-> v, calls |-> [cs EXCEPT ![c] = Call(op, "resolved", "", "none", 0)]]
    ELSE [srv |-> [v EXCEPT ![cur] = Close(@)],
          calls |-> [cs EXCEPT ![c] = Call(op, "pending", "", "close", cur)]]

\* start()
StartCall(c, ok) ==
  /\ calls[c].st # "pending"
  /\ HasFreeSlot(srv)
  /\ ok => ~PortInUse(srv, port)
  /\ LET r == Start(server, srv, calls, c, "start", port, ok)
     IN  /\ server' = r.server
         /\ srv' = r.srv
         /\ calls' = r.calls
  /\ UNCHANGED <<routes, reqs, port, config, last, exists, handed>>

\* stop()
StopCall(c) ==
  /\ calls[c].st # "pending"
  /\ LET r == Stop(server, srv, calls, c, "stop")
     IN  /\ srv' = r.srv
         /\ calls' = r.calls
  /\ UNCHANGED <<routes, reqs, server, port, config, last, exists, handed>>

\* restart(), up to the first await: "await this.stop()".  When stop()
\* resolved at once the rest of restart() is a queued continuation.
RestartCall(c) ==
  /\ calls[c].st # "pending"
  /\ LET r == Stop(server, srv, calls, c, "restart")
     IN  /\ srv' = r.srv
         /\ calls' = [r.calls EXCEPT ![c] =
                        IF @.st = "resolved"
                          THEN Call("restart", "pending", "", "resume", 0)
                          ELSE @]
  /\ UNCHANGED <<routes, reqs, server, port, config, last, exists, handed>>

\* restart() after "await this.stop()": "await this.start()".
RestartResume(c, ok) ==
  /\ calls[c].phase = "resume"
  /\ HasFreeSlot(srv)
  /\ ok => ~PortInUse(srv, port)
  /\ LET r == Start(server, srv, calls, c, "restart", port, ok)
     IN  /\ server' = r.server
         /\ srv' = r.srv
         /\ calls' = r.calls
  /\ UNCHANGED <<routes, reqs, port, config, last, exists, handed>>

\* No continuation of a resolved promise is queued: the event loop can
\* emit the next event.
NoContinuation == \A c \in CallIds : calls[c].phase # "resume"

\* A setPort that rebinds the live listener.
SetPortRebinding(p) ==
  /\ port' = p
  /\ srv' = [s \in ServerIds |-> IF s = server THEN [srv[s] EXCEPT !.port = p]
                                 ELSE srv[s]]
  /\ UNCHANGED <<routes, reqs, server, calls, config, last, exists, handed>>

\* setPort(port)
SetPort(p) ==
  /\ port' = p
  /\ UNCHANGED <<routes, reqs, server, srv, calls, config, last, exists, handed>>

\* 'listening' is emitted on server s: the listen callback resolves the
\* promise of the start() that created s.
ListenEvent(s) ==
  /\ NoContinuation
  /\ srv[s].evt = "listening"
  /\ srv' = [srv EXCEPT ![s].evt = "none"]
  /\ calls' = [c \in CallIds |->
                IF calls[c].srv = s /\ calls[c].phase = "listen"
                     /\ calls[c].st = "pending"
                  THEN [calls[c] EXCEPT !.st = "resolved", !.phase = "none"]
                  ELSE calls[c]]
  /\ UNCHANGED <<routes, reqs, server, port, config, last, exists, handed>>

\* 'error' is emitted on server s after a failed bind: the handler rejects
\* the promise of the start() that created s.
ErrorEvent(s, code) ==
  /\ NoContinuation
  /\ srv[s].evt = "error"
  /\ srv' = [srv EXCEPT ![s].evt = "none"]
  /\ calls' = [c \in CallIds |->
                IF calls[c].srv = s /\ calls[c].phase = "listen"
                     /\ calls[c].st = "pending"
                  THEN [calls[c] EXCEPT !.st = "rejected", !.err = code,
                                        !.phase = "none"]
                  ELSE calls[c]]
  /\ UNCHANGED <<routes, reqs, server, port, config, last, exists, handed>>

\* 'close' is emitted on server s: every close callback sets this.server to
\* null and resolves its stop() promise (phase "closed" tells a stop() so
\* resolved from one that resolved at once); a restart() awaiting the stop
\* gets its continuation queued.  A start() still waiting for 'listening'
\* on s never settles.
CloseEvent(s) ==
  /\ NoContinuation
  /\ srv[s].closing
  /\ srv[s].evt = "none"
  /\ server' = 0
  /\ srv' = [srv EXCEPT ![s] = NoServer]
  /\ calls' = [c \in CallIds |->
                IF calls[c].srv = s /\ calls[c].st = "pending"
                  THEN IF calls[c].phase = "close"
                         THEN IF calls[c].op = "stop"
                                THEN Call("stop", "resolved", "", "closed", 0)
                                ELSE Call("restart", "pending", "", "resume", 0)
                         ELSE [calls[c] EXCEPT !.srv = 0]
                  ELSE calls[c]]
  /\ UNCHANGED <<routes, reqs, port, config, last, exists, handed>>

(***************************************************************************)
(* Actions.                                                                *)
(***************************************************************************)
\* An updateRoutes that overwrites the entry objects of the old table, which
\* requests in flight still reference.
UpdateRoutesInPlace(table) ==
  /\ routes' = table
  /\ reqs' = [id \in ReqIds |->
               IF reqs[id].route # Null /\ table # <<>>
                 THEN [reqs[id] EXCEPT !.route = Some(table[1])]
                 ELSE reqs[id]]
  /\ UNCHANGED <<life, config, last, exists, handed>>

\* updateRoutes(routes)
UpdateRoutes(table) ==
  /\ routes' = table
  /\ UNCHANGED <<reqs, life, config, last, exists, handed>>

\* The server's request listener runs handleRequest for the next request.
\* this.routes after handleRequest: a preflight returns before the lookup;
\* any other request runs findMatchingRoute, and the 404 branch builds
\* availableRoutes with filter() and map(), which return new arrays.
ThisRoutesAfter(table, method) ==
  IF method = "OPTIONS" THEN table ELSE LookupArrays(table).routes

Receive(id, method, url, hdrs) ==
  /\ Accepting
  /\ NoContinuation
  /\ reqs[id].pc = "idle"
  /\ \A j \in ReqIds : j < id => reqs[j].pc # "idle"
  /\ reqs' = [reqs EXCEPT ![id] =
                HandleRequest([@ EXCEPT !.inHeaders = hdrs], routes, method, url)]
  /\ routes' = ThisRoutesAfter(routes, method)
  /\ UNCHANGED <<life, config, last, exists, handed>>

\* The upstream's status line and headers arrive.
ProxyResponse(id, statusCode, hdrs) ==
  /\ reqs[id].up = "pending"
  /\ reqs' = [reqs EXCEPT ![id] =
                OnProxyResponse([@ EXCEPT !.up = "responded"], statusCode, hdrs)]
  /\ UNCHANGED <<routes, life, config, last, exists, handed>>

\* The upstream's body ends.
ProxyEnd(id) ==
  /\ reqs[id].up = "responded"
  /\ reqs' = [reqs EXCEPT ![id] = OnProxyEnd([@ EXCEPT !.up = "complete"])]
  /\ UNCHANGED <<routes, life, config, last, exists, handed>>

\* An error event whose handler answers every request that has an outbound
\* request pending, as with one handler shared by all requests.
ProxyErrorShared(id) ==
  /\ reqs[id].up \in {"pending", "responded", "aborting"}
  /\ reqs' = [j \in ReqIds |->
               IF j = id \/ reqs[j].up = "pending"
                 THEN OnProxyError([reqs[j] EXCEPT !.errored = TRUE,
                                                  !.up = IF @ = "aborting"
                                                           THEN "destroyed"
                                                           ELSE "failed"])
                 ELSE reqs[j]]
  /\ UNCHANGED <<routes, life, config, last, exists, handed>>

\* The outbound request emits 'error': a connection error before or after the
\* response, or the error that follows destroy() before a response.
ProxyError(id) ==
  /\ reqs[id].up \in {"pending", "responded", "aborting"}
  /\ reqs' = [reqs EXCEPT ![id] =
                OnProxyError([@ EXCEPT !.errored = TRUE,
                                       !.up = IF @ = "aborting" THEN "destroyed"
                                              ELSE "failed"])]
  /\ UNCHANGED <<routes, life, config, last, exists, handed>>

\* The outbound socket was idle for the timeout.
ProxyTimeout(id) ==
  /\ reqs[id].up \in {"pending", "responded"}
  /\ reqs' = [reqs EXCEPT ![id] = OnProxyTimeout([@ EXCEPT !.timedOut = TRUE])]
  /\ UNCHANGED <<routes, life, config, last, exists, handed>>

(***************************************************************************)
(* The server specification: the table is replaced and requests are        *)
(* handled concurrently.                                                   *)
(***************************************************************************)
\* The instance after its first start() has resolved.
Started ==
  /\ server = 1
  /\ port = DefaultPort
  /\ srv = [s \in ServerIds |->
              IF s = 1 THEN [NewServer(DefaultPort, TRUE) EXCEPT !.evt = "none"]
              ELSE NoServer]
  /\ calls = [c \in CallIds |->
                IF c = 1 THEN Call("start", "resolved", "", "none", 0) ELSE NoCall]

Init ==
  /\ routes = <<>>
  /\ reqs = [id \in ReqIds |-> IdleReq]
  /\ Started
  /\ config = <<>>
  /\ last = NoOutcome
  /\ exists = TRUE
  /\ handed = Null

Next ==
  \/ \E table \in ServeTables : UpdateRoutes(table)
  \/ \E id \in ReqIds, method \in Methods, url \in ServeUrls :
        Receive(id, method, url, ProxyHost)
  \/ \E id \in ReqIds, statusCode \in UpstreamStatuses, hdrs \in UpstreamHeaders :
        ProxyResponse(id, statusCode, hdrs)
  \/ \E id \in ReqIds : ProxyEnd(id)
  \/ \E id \in ReqIds : ProxyError(id)
  \/ \E id \in ReqIds : ProxyTimeout(id)

Spec == Init /\ [][Next]_vars

(***************************************************************************)
(* The matcher specification: one request against every bounded table.     *)
(***************************************************************************)
MatchInit ==
  /\ routes \in MatchTables
  /\ reqs = [id \in ReqIds |-> IdleReq]
  /\ Started
  /\ config = <<>>
  /\ last = NoOutcome
  /\ exists = TRUE
  /\ handed = Null

MatchNext == \E url \in SlashPaths : Receive(1, "GET", url, ProxyHost)

MatchSpec == MatchInit /\ [][MatchNext]_vars

(***************************************************************************)
(* The forwarding specification: one request of any method and headers     *)
(* against each table of the server specification.                         *)
(***************************************************************************)
ForwardMethods == {"GET", "POST", "DELETE"}

ForwardUrls == ServeUrls \cup {<<"/", "a", "/">>}

InboundHeaders ==
  { NoHeaders,
    ProxyHost,
    [h \in {"host", "accept"} |-> IF h = "host" THEN "proxy" ELSE "text/html"],
    [h \in {"host", "content-length"} |-> IF h = "host" THEN "a" ELSE "0"] }

ForwardInit ==
  /\ routes \in ServeTables
  /\ reqs = [id \in ReqIds |-> IdleReq]
  /\ Started
  /\ config = <<>>
  /\ last = NoOutcome
  /\ exists = TRUE
  /\ handed = Null

ForwardNext ==
  \E method \in ForwardMethods, url \in ForwardUrls, hdrs \in InboundHeaders :
    Receive(1, method, url, hdrs)

ForwardSpec == ForwardInit /\ [][ForwardNext]_vars

(***************************************************************************)
(* The lifecycle specification: a constructed instance, the lifecycle API  *)
(* called by overlapping callers, table replacement and one request.       *)
(***************************************************************************)
BindErrors == {"EADDRINUSE", "EACCES"}

LifeTables ==
  { <<>>,
    <<Route(<<"/">>, "http://a", TRUE)>>,
    <<Route(<<"/">>, "not a url", TRUE)>> }

LifeInit ==
  /\ routes = <<>>
  /\ reqs = [id \in ReqIds |-> IdleReq]
  /\ server = 0
  /\ port = DefaultPort
  /\ srv = [s \in ServerIds |-> NoServer]
  /\ calls = [c \in CallIds |-> NoCall]
  /\ config = <<>>
  /\ last = NoOutcome
  /\ exists = TRUE
  /\ handed = Null

LifeNext ==
  \/ \E c \in CallIds, ok \in BOOLEAN : StartCall(c, ok)
  \/ \E c \in CallIds : StopCall(c)
  \/ \E c \in CallIds : RestartCall(c)
  \/ \E c \in CallIds, ok \in BOOLEAN : RestartResume(c, ok)
  \/ \E p \in Ports : SetPort(p)
  \/ \E s \in ServerIds : ListenEvent(s)
  \/ \E s \in ServerIds, code \in BindErrors : ErrorEvent(s, code)
  \/ \E s \in ServerIds : CloseEvent(s)
  \/ \E table \in LifeTables : UpdateRoutes(table)
  \/ Receive(1, "GET", <<"/", "a">>, ProxyHost)

LifeSpec == LifeInit /\ [][LifeNext]_vars

(***************************************************************************)
(* The extension's route mutations: RouteManager over the stored           *)
(* configuration (roxy.routes), the addRoute and removeRoute commands, the *)
(* webview's addRoute, updateRoute and deleteRoute messages, and           *)
(* updateProxyConfiguration, which hands the stored list to the proxy.     *)
(***************************************************************************)
ForbiddenChars == {"*", "(", ")", "?"}

\* path.includes('*') || path.includes('(') || path.includes(')') || ...
HasForbiddenChar(p) == \E i \in DOMAIN p : p[i] \in ForbiddenChars

\* path === '/' ? '/' : path.replace(/\/$/, '')
NormalizeStoredPath(p) ==
  IF p = <<"/">> THEN p ELSE IF EndsWithSlash(p) THEN DropLast(p) ELSE p

\* routes.findIndex(r => r.path === path), 0 when there is none
FindIndex(cfg, p) ==
  IF \E i \in DOMAIN cfg : cfg[i].path = p
    THEN CHOOSE i \in DOMAIN cfg :
           cfg[i].path = p /\ \A j \in DOMAIN cfg : j < i => cfg[j].path # p
    ELSE 0

\* The result of a RouteManager mutation: the list it saves, or the error
\* it throws before saving.
Saved(list) == [ok |-> TRUE, err |-> "", routes |-> list]

Thrown(cfg, err) == [ok |-> FALSE, err |-> err, routes |-> cfg]

\* RouteManager.addRoute
AddRoute(cfg, p, t, e) ==
  IF FindIndex(cfg, p) # 0 THEN Thrown(cfg, "already exists")
  ELSE IF ~StartsWith(p, <<"/">>) THEN Thrown(cfg, "must start with /")
  ELSE IF HasForbiddenChar(p) THEN Thrown(cfg, "special characters")
  ELSE IF ~IsValidUrl(t) THEN Thrown(cfg, "invalid url")
  ELSE Saved(Append(cfg, Route(NormalizeStoredPath(p), t, e)))

\* RouteManager.removeRoute
RemoveRoute(cfg, p) ==
  LET filteredRoutes == SelectSeq(cfg, LAMBDA r : r.path # p)
  IN  IF Len(filteredRoutes) = Len(cfg) THEN Thrown(cfg, "not found")
      ELSE Saved(filteredRoutes)

\* An updateRoute that saves before it validates.
UpdateRouteSaveFirst(cfg, oldPath, p, t, e) ==
  LET index == FindIndex(cfg, oldPath)
  IN  IF index = 0 THEN Thrown(cfg, "not found")
      ELSE IF ~StartsWith(p, <<"/">>) \/ HasForbiddenChar(p) \/ ~IsValidUrl(t)
        THEN Thrown([cfg EXCEPT ![index] = Route(p, t, e)], "invalid")
      ELSE Saved([cfg EXCEPT ![index] = Route(NormalizeStoredPath(p), t, e)])

\* RouteManager.updateRoute(oldPath, {path: p, target: t, enabled: e})
UpdateRoute(cfg, oldPath, p, t, e) ==
  LET index == FindIndex(cfg, oldPath)
      normalizedPath == NormalizeStoredPath(p)
  IN  IF index = 0 THEN Thrown(cfg, "not found")
      ELSE IF ~StartsWith(p, <<"/">>) THEN Thrown(cfg, "must start with /")
      ELSE IF HasForbiddenChar(p) THEN Thrown(cfg, "special characters")
      ELSE IF ~IsValidUrl(t) THEN Thrown(cfg, "invalid url")
      ELSE IF \E i \in DOMAIN cfg : i # index /\ cfg[i].path = normalizedPath
        THEN Thrown(cfg, "already exists")
      ELSE Saved([cfg EXCEPT ![index] = Route(normalizedPath, t, e)])

\* RouteManager.toggleRoute
ToggleRoute(cfg, p) ==
  LET index == FindIndex(cfg, p)
  IN  IF index = 0 THEN Thrown(cfg, "not found")
      ELSE Saved([cfg EXCEPT ![index].enabled = ~@])

\* What the user can type into a path or target field.
CfgPaths ==
  { <<"/">>, <<"/", "a">>, <<"/", "a", "/">>, <<"/", "*">>, <<"a">>, <<>> }

CfgTargets == {"http://a", "not a url", ""}

\* saveRoutes(list) followed by updateProxyConfiguration(): the proxy's
\* table becomes the stored list.
\* A save that is not followed by updateProxyConfiguration().
SaveOnly(op, list) ==
  /\ config' = list
  /\ last' = Outcome(op, "")
  /\ UNCHANGED <<routes, reqs, life, exists, handed>>

SaveAndNotify(op, list) ==
  /\ config' = list
  /\ routes' = IF exists THEN list ELSE routes
  /\ last' = Outcome(op, "")
  /\ UNCHANGED <<reqs, life, exists, handed>>

\* The mutation threw: the handler's catch shows the message and nothing
\* is saved or handed to the proxy.
Rejected(op, err) ==
  /\ last' = Outcome(op, err)
  /\ UNCHANGED <<routes, reqs, life, config, exists, handed>>

\* The vs-roxy.addRoute command: two validated input boxes, then addRoute.
AddRouteCommand(p, t) ==
  /\ Len(config) < MaxRoutes
  /\ p # <<>> /\ StartsWith(p, <<"/">>)
  /\ t # "" /\ IsValidUrl(t)
  /\ LET r == AddRoute(config, p, t, TRUE)
     IN  IF r.ok THEN SaveAndNotify("addRoute", r.routes) ELSE Rejected("addRoute", r.err)

\* The vs-roxy.removeRoute command on a listed route.
RemoveRouteCommand(i) ==
  /\ i \in DOMAIN config
  /\ LET r == RemoveRoute(config, config[i].path)
     IN  IF r.ok THEN SaveAndNotify("removeRoute", r.routes) ELSE Rejected("removeRoute", r.err)

\* The webview's addRoute() and the host's 'addRoute' message handler.
WebviewAddRoute(p, t) ==
  /\ Len(config) < MaxRoutes
  /\ p # <<>> /\ t # ""
  /\ StartsWith(p, <<"/">>)
  /\ LET r == AddRoute(config, p, t, TRUE)
     IN  IF r.ok THEN SaveAndNotify("addRoute", r.routes) ELSE Rejected("addRoute", r.err)

\* The webview's updateRoute(element) on row i and the host's 'updateRoute'
\* message handler: routes[routeIndex] = message.route; updateRoutes(routes).
WebviewUpdateRoute(i, p, t, e) ==
  /\ i \in DOMAIN config
  /\ StartsWith(p, <<"/">>)
  /\ LET routeIndex == FindIndex(config, config[i].path)
     IN  SaveAndNotify("updateRoutes", [config EXCEPT ![routeIndex] = Route(p, t, e)])

\* The webview's deleteRoute(path) and the host's 'deleteRoute' handler.
WebviewDeleteRoute(i) ==
  /\ i \in DOMAIN config
  /\ LET r == RemoveRoute(config, config[i].path)
     IN  IF r.ok THEN SaveAndNotify("removeRoute", r.routes) ELSE Rejected("removeRoute", r.err)

ConfigInit ==
  /\ routes = <<>>
  /\ reqs = [id \in ReqIds |-> IdleReq]
  /\ Started
  /\ config = <<>>
  /\ last = NoOutcome
  /\ exists = TRUE
  /\ handed = Null

ConfigNext ==
  \/ \E p \in CfgPaths, t \in CfgTargets : AddRouteCommand(p, t)
  \/ \E i \in 1..MaxRoutes : RemoveRouteCommand(i)
  \/ \E p \in CfgPaths, t \in CfgTargets : WebviewAddRoute(p, t)
  \/ \E i \in 1..MaxRoutes, p \in CfgPaths, t \in CfgTargets, e \in BOOLEAN :
        WebviewUpdateRoute(i, p, t, e)
  \/ \E i \in 1..MaxRoutes : WebviewDeleteRoute(i)

ConfigSpec == ConfigInit /\ [][ConfigNext]_vars

(***************************************************************************)
(* The RouteManager specification: addRoute, updateRoute, removeRoute and  *)
(* toggleRoute called directly on the stored configuration, and the two    *)
(* commands that hand a saved list on to the proxy.                        *)
(***************************************************************************)
\* Paths and targets passed to RouteManager.
MgrPaths == { <<"/">>, <<"/", "/">>, <<"/", "/", "/">>, <<"/", "*">>, <<"a">> }

\* Paths named as the entry to update: two that can be stored, one never.
MgrOldPaths == { <<"/">>, <<"/", "/">>, <<"a">> }

MgrTargets == {"http://a", "not a url"}

\* saveRoutes(list) when the mutation returned, nothing when it threw.
SaveOrThrow(op, r) ==
  /\ config' = r.routes
  /\ last' = Outcome(op, r.err)
  /\ UNCHANGED <<routes, reqs, life, exists, handed>>

MgrAddRoute(p, t, e) ==
  /\ Len(config) < MaxRoutes
  /\ SaveOrThrow("addRoute", AddRoute(config, p, t, e))

MgrUpdateRoute(oldPath, p, t, e) ==
  /\ Len(config) <= MaxRoutes
  /\ SaveOrThrow("updateRoute", UpdateRoute(config, oldPath, p, t, e))

MgrRemoveRoute(p) ==
  /\ Len(config) <= MaxRoutes
  /\ SaveOrThrow("removeRoute", RemoveRoute(config, p))

MgrToggleRoute(p) ==
  /\ Len(config) <= MaxRoutes
  /\ SaveOrThrow("toggleRoute", ToggleRoute(config, p))

ManagerInit == ConfigInit

ManagerNext ==
  \/ \E p \in MgrPaths, t \in MgrTargets, e \in BOOLEAN : MgrAddRoute(p, t, e)
  \/ \E o \in MgrOldPaths, p \in MgrPaths, t \in MgrTargets, e \in BOOLEAN :
        MgrUpdateRoute(o, p, t, e)
  \/ \E p \in MgrPaths : MgrRemoveRoute(p)
  \/ \E p \in MgrPaths : MgrToggleRoute(p)
  \/ \E p \in MgrPaths, t \in MgrTargets : AddRouteCommand(p, t)
  \/ \E i \in 1..MaxRoutes : RemoveRouteCommand(i)

ManagerSpec == ManagerInit /\ [][ManagerNext]_vars

(***************************************************************************)
(* The extension specification: the proxy instance is created by the       *)
(* first start, started and stopped by the commands and the webview's      *)
(* toggle, while routes are mutated through commands and webview messages. *)
(***************************************************************************)
\* if (!proxyServer) proxyServer = new ProxyServer(port);
\* updateProxyConfiguration(); await proxyServer.start()
CreateConfigureStart(c, ok) ==
  /\ HasFreeSlot(srv)
  /\ ok => ~PortInUse(srv, port)
  /\ exists' = TRUE
  /\ UNCHANGED handed
  /\ routes' = config
  /\ LET r == Start(server, srv, calls, c, "start", port, ok)
     IN  /\ server' = r.server
         /\ srv' = r.srv
         /\ calls' = r.calls
  /\ UNCHANGED <<reqs, port, config, last>>

\* The vs-roxy.startProxy command.
StartProxyCommand(c, ok) ==
  /\ calls[c].st # "pending"
  /\ IF exists /\ IsRunning
       THEN UNCHANGED vars
       ELSE CreateConfigureStart(c, ok)

\* The vs-roxy.stopProxy command.
StopProxyCommand(c) ==
  /\ calls[c].st # "pending"
  /\ IF ~(exists /\ IsRunning)
       THEN UNCHANGED vars
       ELSE StopCall(c)

\* The webview's 'toggleProxy' message.
ToggleProxyMessage(c, ok) ==
  /\ calls[c].st # "pending"
  /\ IF exists /\ IsRunning
       THEN StopCall(c)
       ELSE CreateConfigureStart(c, ok)

\* Paths and targets typed in the extension specification.
ExtPaths == { <<"/">>, <<"/", "a">> }

ExtTargets == {"http://a"}

ExtensionInit ==
  /\ routes = <<>>
  /\ reqs = [id \in ReqIds |-> IdleReq]
  /\ server = 0
  /\ port = DefaultPort
  /\ srv = [s \in ServerIds |-> NoServer]
  /\ calls = [c \in CallIds |-> NoCall]
  /\ config = <<>>
  /\ last = NoOutcome
  /\ exists = FALSE
  /\ handed = Null

ExtensionNext ==
  \/ \E c \in CallIds, ok \in BOOLEAN : StartProxyCommand(c, ok)
  \/ \E c \in CallIds : StopProxyCommand(c)
  \/ \E c \in CallIds, ok \in BOOLEAN : ToggleProxyMessage(c, ok)
  \/ \E s \in ServerIds : ListenEvent(s)
  \/ \E s \in ServerIds, code \in BindErrors : ErrorEvent(s, code)
  \/ \E s \in ServerIds : CloseEvent(s)
  \/ \E p \in ExtPaths, t \in ExtTargets : AddRouteCommand(p, t)
  \/ \E i \in 1..MaxRoutes : RemoveRouteCommand(i)
  \/ \E p \in ExtPaths, t \in ExtTargets : WebviewAddRoute(p, t)
  \/ \E i \in 1..MaxRoutes, p \in ExtPaths, t \in ExtTargets, e \in BOOLEAN :
        WebviewUpdateRoute(i, p, t, e)
  \/ \E i \in 1..MaxRoutes : WebviewDeleteRoute(i)

ExtensionSpec == ExtensionInit /\ [][ExtensionNext]_vars

(***************************************************************************)
(* Vocabulary of the properties, as the specification defines it.          *)
(***************************************************************************)
\* One trailing "/" stripped; the root path is never stripped to empty.
NormalizedPath(p) == IF p # <<"/">> /\ EndsWithSlash(p) THEN DropLast(p) ELSE p

\* Entry i of the table is enabled with a non-empty path and target.
Eligible(i) ==
  routes[i].enabled /\ routes[i].path # <<>> /\ routes[i].target # ""

\* Entry i's normalized path is a literal prefix of the normalized url.
PrefixMatches(i, url) ==
  StartsWith(NormalizedPath(url), NormalizedPath(routes[i].path))

NormLen(p) == Len(NormalizedPath(p))

\* The error named by the JSON body of a response, "" when it has none.
BodyError(r) == IF r.body = EmptyBody THEN "" ELSE r.body[1].error

Forwarded(r) == r.pc = "handled" /\ r.outCount > 0

(***************************************************************************)
(* C1.  For every table and request path the matcher returns, among the    *)
(* eligible entries whose normalized path is a literal prefix of the       *)
(* normalized request path, one whose normalized path is longest.          *)
(* (MatchSpec)                                                             *)
(***************************************************************************)
C1_LongestPrefixWins ==
  reqs[1].pc = "handled" =>
    LET cands == {i \in 1..Len(routes) :
                    Eligible(i) /\ PrefixMatches(i, reqs[1].url)}
    IN  cands # {} =>
          /\ reqs[1].route # Null
          /\ \E i \in cands :
                /\ routes[i] = reqs[1].route[1]
                /\ \A j \in cands : NormLen(routes[j].path) <= NormLen(routes[i].path)

(***************************************************************************)
(* C2.  The route the matcher returns is never a disabled entry nor one    *)
(* with an empty path or target, and when no eligible entry prefix-matches *)
(* the result is no-match.  (MatchSpec)                                    *)
(***************************************************************************)
C2_NeverIneligible ==
  reqs[1].pc = "handled" =>
    /\ reqs[1].route # Null =>
          /\ reqs[1].route[1].enabled
          /\ reqs[1].route[1].path # <<>>
          /\ reqs[1].route[1].target # ""
          /\ \E i \in 1..Len(routes) : Eligible(i) /\ routes[i] = reqs[1].route[1]
    /\ (\A i \in 1..Len(routes) : PrefixMatches(i, reqs[1].url) => ~Eligible(i))
          => reqs[1].route = Null

\* A disabled entry is the longest prefix match and a shorter eligible entry
\* was returned instead.
C2_Witness ==
  /\ reqs[1].pc = "handled"
  /\ reqs[1].route # Null
  /\ \E i \in 1..Len(routes) :
        /\ ~routes[i].enabled
        /\ routes[i].target # ""
        /\ PrefixMatches(i, reqs[1].url)
        /\ NormLen(routes[i].path) > NormLen(reqs[1].route[1].path)

C1_FailingInput ==
  /\ routes = << Route(<<"/", "a", "/">>, "http://a", TRUE),
                 Route(<<"/", "a", "a">>, "http://a", TRUE) >>
  /\ reqs[1].pc = "handled"
  /\ reqs[1].url = <<"/", "a", "a">>
  /\ reqs[1].route = Some(Route(<<"/", "a", "/">>, "http://a", TRUE))

(***************************************************************************)
(* C4.  Every OPTIONS request, for any path and any table, is answered     *)
(* with status 200 and an empty body carrying the CORS headers; handling   *)
(* it never invokes the matcher and never issues an outbound request.      *)
(***************************************************************************)
C4_OptionsPreflight ==
  \A id \in ReqIds :
    (reqs[id].pc = "handled" /\ reqs[id].method = "OPTIONS") =>
      /\ reqs[id].status = 200
      /\ reqs[id].writeHeadCalls = 1
      /\ reqs[id].body = EmptyBody
      /\ reqs[id].ended
      /\ \A h \in DOMAIN CorsHeaders :
            h \in DOMAIN reqs[id].headers /\ reqs[id].headers[h] = CorsHeaders[h]
      /\ reqs[id].matcherCalls = 0
      /\ reqs[id].route = Null
      /\ reqs[id].outCount = 0
      /\ reqs[id].up = "none"

\* OPTIONS requests were answered both for a path no route covers (empty
\* table at that moment or later) and for a path a route of the table covers.
C4_Witness ==
  \E id \in ReqIds :
    /\ reqs[id].pc = "handled"
    /\ reqs[id].method = "OPTIONS"
    /\ reqs[id].status = 200
    /\ FindMatchingRoute(routes, reqs[id].url) # Null
    /\ \E other \in ReqIds :
          /\ reqs[other].method = "OPTIONS"
          /\ FindMatchingRoute(routes, reqs[other].url) = Null

(***************************************************************************)
(* C5.  For a matched route with path R # "/" and an inbound path P that   *)
(* starts with R, the outbound path is P with the prefix R removed, with   *)
(* "/" prepended when the remainder does not start with "/", and is never  *)
(* empty; for a matched route "/" the outbound path is P.  (MatchSpec)     *)
(***************************************************************************)
C5_OutboundPath ==
  \A id \in ReqIds :
    Forwarded(reqs[id]) =>
      LET R == reqs[id].route[1].path
          P == reqs[id].url
          Q == reqs[id].outPath
      IN  /\ R = <<"/">> => Q = P
          /\ (R # <<"/">> /\ StartsWith(P, R)) =>
                /\ Q # <<>>
                /\ \E rest \in SeqsUpTo(Chars, MaxPathLen) :
                      /\ P = R \o rest
                      /\ Q = IF rest # <<>> /\ rest[1] = "/" THEN rest
                             ELSE <<"/">> \o rest

\* A request for exactly the route path was forwarded to "/", and the
\* outbound path is not just the remainder.
C5_Witness ==
  \E id \in ReqIds :
    /\ Forwarded(reqs[id])
    /\ reqs[id].route[1].path # <<"/">>
    /\ reqs[id].url = reqs[id].route[1].path
    /\ reqs[id].outPath = <<"/">>

(***************************************************************************)
(* C6.  For every ordering of the upstream response, error and timeout     *)
(* events of a request, a status line is written to the caller at most     *)
(* once.                                                                   *)
(***************************************************************************)
C6_StatusWrittenOnce ==
  \A id \in ReqIds :
    /\ reqs[id].writeHeadCalls <= 1
    /\ reqs[id].headersSent <=> reqs[id].writeHeadCalls = 1

\* The timeout fired after the upstream status had been relayed.
C6_Witness ==
  \E id \in ReqIds :
    /\ reqs[id].timedOut
    /\ reqs[id].up = "destroyed"
    /\ ~reqs[id].errored
    /\ reqs[id].status \in UpstreamStatuses
    /\ reqs[id].writeHeadCalls = 1

(***************************************************************************)
(* C7.  When the outbound request fails with an error before any response  *)
(* has been written to the caller, the caller receives status 502 with a   *)
(* JSON body whose error is "Bad Gateway" and whose message names the      *)
(* target of the route matched for this request.                           *)
(***************************************************************************)
C7_BadGateway ==
  [][\A id \in ReqIds :
       (~reqs[id].headersSent /\ ~reqs[id].errored /\ reqs'[id].errored) =>
         /\ reqs'[id].status = 502
         /\ reqs'[id].ended
         /\ BodyError(reqs'[id]) = "Bad Gateway"
         /\ reqs'[id].body[1].message.target = reqs[id].route[1].target
         /\ reqs'[id].headers["Content-Type"] = "application/json"]_vars

\* A 502 was written for a request whose matched route is no longer in the
\* table.
C7_Witness ==
  \E id \in ReqIds :
    /\ reqs[id].errored
    /\ reqs[id].status = 502
    /\ BodyError(reqs[id]) = "Bad Gateway"
    /\ routes = <<>>

(***************************************************************************)
(* C8.  When the timeout fires before any response has been written, the   *)
(* outbound request is aborted and the caller receives exactly status 504  *)
(* with error "Gateway Timeout"; the error event the abort triggers does   *)
(* not turn the outcome into 502 or add a second response.                 *)
(***************************************************************************)
C8_GatewayTimeout ==
  [][\A id \in ReqIds :
       /\ (~reqs[id].headersSent /\ ~reqs[id].timedOut /\ reqs'[id].timedOut) =>
             /\ reqs'[id].up = "aborting"
             /\ reqs'[id].status = 504
             /\ reqs'[id].writeHeadCalls = 1
             /\ reqs'[id].ended
             /\ BodyError(reqs'[id]) = "Gateway Timeout"
             /\ reqs'[id].body[1].message.target = reqs[id].route[1].target
       /\ (reqs[id].up = "aborting" /\ reqs'[id].errored) =>
             /\ reqs'[id].status = 504
             /\ reqs'[id].writeHeadCalls = 1
             /\ reqs'[id].body = reqs[id].body
             /\ reqs'[id].outCount = reqs[id].outCount]_vars

\* The abort's error event has fired after the 504 was written.
C8_Witness ==
  \E id \in ReqIds :
    /\ reqs[id].timedOut
    /\ reqs[id].errored
    /\ reqs[id].up = "destroyed"
    /\ reqs[id].status = 504

(***************************************************************************)
(* C9.  Every accepted request eventually has its response completed or    *)
(* its connection terminated, also when the timeout or an upstream error   *)
(* fires after the response headers were relayed.  Stated on the states in *)
(* which the outbound request can produce no further event: there the      *)
(* caller's response has been ended.                                       *)
(***************************************************************************)
C9_ResponseCompleted ==
  \A id \in ReqIds :
    (reqs[id].pc = "handled"
       /\ reqs[id].up \in {"none", "complete", "failed", "destroyed"})
      => reqs[id].ended

\* The upstream relayed its status line and then stalled until the timeout:
\* the outbound request is destroyed and the caller's response is left open.
C9_FailingInput ==
  \E id \in ReqIds :
    /\ reqs[id].timedOut
    /\ reqs[id].up = "destroyed"
    /\ reqs[id].headersSent
    /\ reqs[id].status \in UpstreamStatuses
    /\ ~reqs[id].ended

(***************************************************************************)
(* C10.  Each inbound request causes at most one outbound request: one     *)
(* answered as preflight, 404 or 500 causes none, and one whose outbound   *)
(* attempt ended in 502 or 504 is not issued again.                        *)
(***************************************************************************)
C10_OneOutbound ==
  \A id \in ReqIds :
    /\ reqs[id].outCount <= 1
    /\ (\/ reqs[id].method = "OPTIONS"
        \/ BodyError(reqs[id]) \in {"Not Found", "Internal Server Error"})
          => reqs[id].outCount = 0 /\ reqs[id].up = "none"
    /\ BodyError(reqs[id]) \in {"Bad Gateway", "Gateway Timeout"}
          => reqs[id].outCount = 1 /\ reqs[id].up \in {"failed", "aborting", "destroyed"}

\* One request ended in 502 and another in 504 after the abort's error, each
\* with its single outbound request.
C10_Witness ==
  \E a, b \in ReqIds :
    /\ BodyError(reqs[a]) = "Bad Gateway"
    /\ reqs[a].outCount = 1
    /\ BodyError(reqs[b]) = "Gateway Timeout"
    /\ reqs[b].errored
    /\ reqs[b].outCount = 1

(***************************************************************************)
(* C11.  When the target of the matched route does not parse as an         *)
(* absolute URL, the handler answers 500 with the JSON body                *)
(* {error: 'Internal Server Error'}, issues no outbound request, and       *)
(* leaves the lifecycle state and the route table as they were.            *)
(***************************************************************************)
C11_MalformedTarget ==
  [][\A id \in ReqIds :
       (/\ reqs[id].pc = "idle"
        /\ reqs'[id].pc = "handled"
        /\ reqs'[id].route # Null
        /\ ~IsValidUrl(reqs'[id].route[1].target))
         => /\ reqs'[id].status = 500
            /\ reqs'[id].writeHeadCalls = 1
            /\ reqs'[id].ended
            /\ BodyError(reqs'[id]) = "Internal Server Error"
            /\ reqs'[id].outCount = 0
            /\ reqs'[id].up = "none"
            /\ UNCHANGED <<server, port, srv, calls, routes>>]_vars

\* A request matched to a route with a malformed target was answered 500
\* by a listening instance.
C11_Witness ==
  \E id \in ReqIds :
    /\ reqs[id].pc = "handled"
    /\ reqs[id].route # Null
    /\ ~IsValidUrl(reqs[id].route[1].target)
    /\ reqs[id].status = 500
    /\ BodyError(reqs[id]) = "Internal Server Error"
    /\ Accepting

(***************************************************************************)
(* Lifecycle vocabulary of the properties.                                 *)
(***************************************************************************)
\* The instance is Listening: its server is bound, has announced it and
\* has not been asked to close.
Listening ==
  /\ server # 0
  /\ srv[server].handle
  /\ srv[server].evt = "none"
  /\ ~srv[server].closing

\* The instance is Stopped.
Stopped == server = 0

\* Caller c invokes operation op in this step.
Invokes(c, op) ==
  /\ calls[c].st # "pending"
  /\ calls'[c] # calls[c]
  /\ calls'[c].op = op

ActiveListeners == {s \in ServerIds : srv[s].handle}

(***************************************************************************)
(* C12.  start() on an instance that is Listening rejects with 'already    *)
(* running' and does nothing else: the listener stays bound and accepting, *)
(* no second listener is created, port and route table are unchanged.      *)
(***************************************************************************)
C12_StartWhileListening ==
  [][\A c \in CallIds :
       (Listening /\ Invokes(c, "start"))
         => /\ calls'[c].st = "rejected"
            /\ calls'[c].err = "already running"
            /\ UNCHANGED <<server, srv, port, routes>>
            /\ Listening'
            /\ ActiveListeners' = {server}]_vars

\* A start() was rejected as already running and the listener is in place.
C12_Witness ==
  \E c \in CallIds :
    /\ calls[c] = Call("start", "rejected", "already running", "none", 0)
    /\ Listening
    /\ ActiveListeners = {server}

(***************************************************************************)
(* C13.  stop() on a Stopped instance resolves and changes nothing: the    *)
(* instance stays Stopped, port and route table are unchanged.             *)
(***************************************************************************)
C13_StopWhileStopped ==
  [][\A c \in CallIds :
       (Stopped /\ Invokes(c, "stop"))
         => /\ calls'[c].st = "resolved"
            /\ UNCHANGED <<server, srv, port, routes>>
            /\ Stopped'
            /\ ActiveListeners' = {}]_vars

\* A stop() resolved at once, without a close, and the instance is Stopped.
C13_Witness ==
  \E c \in CallIds :
    /\ calls[c] = Call("stop", "resolved", "", "none", 0)
    /\ Stopped
    /\ ~Accepting

(***************************************************************************)
(* C14.  Under every interleaving of start(), stop(), restart(), setPort() *)
(* and their listen, error and close completions, overlapping calls        *)
(* included, the instance has at most one active listener.                 *)
(***************************************************************************)
C14_AtMostOneListener == Cardinality(ActiveListeners) <= 1

\* Two restarts overlapped: the start() of one bound the listener, the
\* start() of the other was rejected, and one listener is active.
C14_Witness ==
  \E c, d \in CallIds :
    /\ calls[c].op = "restart"
    /\ calls[c].st = "resolved"
    /\ calls[d] = Call("restart", "rejected", "already running", "none", 0)
    /\ Cardinality(ActiveListeners) = 1

(***************************************************************************)
(* C15.  A stop() promise resolves only once the listener has closed: in   *)
(* the state in which it resolves isRunning() is false and nothing         *)
(* accepts connections, and a listener appears again only by a start().    *)
(***************************************************************************)
C15_StopResolvesAfterClose ==
  [][/\ \A c \in CallIds :
          (calls'[c] # calls[c] /\ calls'[c].op = "stop"
             /\ calls'[c].st = "resolved")
            => ~IsRunning' /\ ActiveListeners' = {}
     /\ (ActiveListeners = {} /\ ActiveListeners' # {})
          => \E c \in CallIds :
               /\ calls'[c] # calls[c]
               /\ calls'[c].phase = "listen"
               /\ ActiveListeners' = {calls'[c].srv}]_vars

\* A stop() on a running instance resolved from the close callback; the
\* instance is Stopped and nothing accepts.
C15_Witness ==
  \E c \in CallIds :
    /\ calls[c] = Call("stop", "resolved", "", "closed", 0)
    /\ ~IsRunning
    /\ ~Accepting

(***************************************************************************)
(* C20.  setPort(p) does not rebind: an active listener keeps the port it  *)
(* was started on, setPort changes neither the server nor its listener,    *)
(* and a listener bound by a later start() (as in restart) is bound to     *)
(* the most recently set port.                                             *)
(***************************************************************************)
C20_NoLiveRebind ==
  [][/\ \A s \in ServerIds :
          /\ (srv[s].handle /\ srv'[s].handle) => srv'[s].port = srv[s].port
          /\ (~srv[s].handle /\ srv'[s].handle)
               => /\ srv'[s].port = port
                  /\ \E c \in CallIds :
                       calls'[c] # calls[c] /\ calls'[c].phase = "listen"
                         /\ calls'[c].srv = s
     /\ port' # port => UNCHANGED <<server, srv, calls, routes>>]_vars

\* A restart moved the listener to the second port; a later setPort of the
\* default port left it there.
C20_Witness ==
  /\ Listening
  /\ srv[server].port = DefaultPort + 1
  /\ port = DefaultPort
  /\ \E c \in CallIds : calls[c].op = "restart" /\ calls[c].st = "resolved"

(***************************************************************************)
(* C16.  Once a request is matched to a route, replacing the table while   *)
(* the request is in flight does not change the route used for it: the     *)
(* route is the one selected from the table at match time, the rewritten   *)
(* outbound path is computed from it and stays, and a later 502 or 504     *)
(* names its target.                                                       *)
(***************************************************************************)
C16_RouteCapturedAtMatch ==
  [][\A id \in ReqIds :
       /\ (reqs[id].pc = "idle" /\ reqs'[id].route # Null)
            => /\ reqs'[id].route = FindMatchingRoute(routes, reqs'[id].url)
               /\ reqs'[id].outCount = 1
                    => reqs'[id].outPath =
                         TargetPath(reqs'[id].route[1], reqs'[id].url)
       /\ (reqs[id].pc = "handled" /\ reqs[id].route # Null)
            => /\ reqs'[id].route = reqs[id].route
               /\ reqs'[id].url = reqs[id].url
               /\ reqs'[id].outPath = reqs[id].outPath
               /\ BodyError(reqs'[id]) \in {"Bad Gateway", "Gateway Timeout"}
                    => reqs'[id].body[1].message.target = reqs[id].route[1].target]_vars

\* A forwarded request got its 502 naming the target of the route selected
\* for it, after the table was replaced by one that selects another route
\* or none for the same url.
C16_Witness ==
  \E id \in ReqIds :
    /\ reqs[id].route # Null
    /\ reqs[id].outCount = 1
    /\ BodyError(reqs[id]) = "Bad Gateway"
    /\ reqs[id].body[1].message.target = reqs[id].route[1].target
    /\ FindMatchingRoute(routes, reqs[id].url) # reqs[id].route

(***************************************************************************)
(* C17.  Table replacement is atomic and live: each request is matched     *)
(* against one whole table, the one most recently installed by             *)
(* updateRoutes (or the initial empty one); the route it gets is an        *)
(* eligible entry of that table whose path prefixes the url, a 404 means   *)
(* that table has no such entry and lists routes of that table only; and   *)
(* the listener is neither stopped nor restarted for it.                   *)
(***************************************************************************)
C17_AtomicLiveReplacement ==
  [][\A id \in ReqIds :
       (reqs[id].pc = "idle" /\ reqs'[id].pc = "handled"
          /\ reqs'[id].method # "OPTIONS")
         => /\ routes \in ServeTables
            /\ reqs'[id].route # Null
                 => \E i \in DOMAIN routes :
                      /\ routes[i] = reqs'[id].route[1]
                      /\ Eligible(i)
                      /\ PrefixMatches(i, reqs'[id].url)
            /\ reqs'[id].route = Null
                 => /\ reqs'[id].status = 404
                    /\ \A i \in DOMAIN routes :
                         ~(Eligible(i) /\ PrefixMatches(i, reqs'[id].url))
                    /\ \A k \in DOMAIN reqs'[id].body[1].availableRoutes :
                         \E i \in DOMAIN routes :
                           /\ routes[i].enabled
                           /\ routes[i].path =
                                reqs'[id].body[1].availableRoutes[k].path
                           /\ routes[i].target =
                                reqs'[id].body[1].availableRoutes[k].target
            /\ UNCHANGED <<routes, server, srv>>]_vars

\* On one listener that was never stopped, one request was answered 404
\* from the empty table and another was matched to a route of the table
\* installed afterwards.
C17_Witness ==
  \E a, b \in ReqIds :
    /\ reqs[a].status = 404
    /\ BodyError(reqs[a]) = "Not Found"
    /\ reqs[a].body[1].availableRoutes = <<>>
    /\ reqs[b].route # Null
    /\ reqs[b].outCount = 1
    /\ \E i \in DOMAIN routes : routes[i] = reqs[b].route[1]
    /\ Listening
    /\ \A c \in CallIds : calls[c].op \in {"none", "start"}

(***************************************************************************)
(* C18.  A non-OPTIONS request for which the matcher reports no match is   *)
(* answered 404 with no outbound request, and the availableRoutes of its   *)
(* body are the {path, target} of exactly the enabled entries of the       *)
(* table the match was computed on, in table order.                        *)
(***************************************************************************)
EnabledEntries == {i \in DOMAIN routes : routes[i].enabled}

C18_NotFoundListsEnabled ==
  \A id \in ReqIds :
    (reqs[id].pc = "handled" /\ reqs[id].method # "OPTIONS"
       /\ reqs[id].route = Null)
      => /\ reqs[id].status = 404
         /\ reqs[id].ended
         /\ BodyError(reqs[id]) = "Not Found"
         /\ reqs[id].outCount = 0
         /\ reqs[id].up = "none"
         /\ LET avail == reqs[id].body[1].availableRoutes
            IN  /\ Len(avail) = Cardinality(EnabledEntries)
                /\ \A i \in EnabledEntries :
                     avail[Cardinality({j \in EnabledEntries : j <= i})] =
                       [path |-> routes[i].path, target |-> routes[i].target]

\* A 404 from a table holding a disabled entry and an enabled one that did
\* not match: the body lists the enabled entry only.
C18_Witness ==
  \E id \in ReqIds :
    /\ reqs[id].status = 404
    /\ reqs[id].route = Null
    /\ Len(routes) = 2
    /\ Cardinality(EnabledEntries) = 1
    /\ Len(reqs[id].body[1].availableRoutes) = 1

(***************************************************************************)
(* C19.  After any sequence of route mutations issued through the          *)
(* extension, every entry of the table handed to the proxy has a path      *)
(* that starts with '/' and contains none of '*', '(', ')', '?', and a     *)
(* target that parses as an absolute URL.                                  *)
(***************************************************************************)
C19_TableEntriesValid ==
  \A i \in DOMAIN routes :
    /\ StartsWith(routes[i].path, <<"/">>)
    /\ \A k \in DOMAIN routes[i].path : routes[i].path[k] \notin {"*", "(", ")", "?"}
    /\ IsValidUrl(routes[i].target)

\* The proxy's table, as handed over after a webview updateRoute message,
\* holds an entry with path '/*' and a target that is not a URL.
C19_FailingInput ==
  /\ routes = config
  /\ \E i \in DOMAIN routes :
       /\ routes[i].path = <<"/", "*">>
       /\ routes[i].target = "not a url"

(***************************************************************************)
(* C21.  Every response sent to a caller, the relayed upstream responses   *)
(* included, carries the four CORS headers with the proxy's fixed values,  *)
(* whatever headers the upstream response contains.                        *)
(***************************************************************************)
C21_CorsOnEveryResponse ==
  \A id \in ReqIds :
    reqs[id].headersSent
      => /\ DOMAIN CorsHeaders \subseteq DOMAIN reqs[id].headers
         /\ reqs[id].headers["Access-Control-Allow-Origin"] = "*"
         /\ reqs[id].headers["Access-Control-Allow-Methods"] =
              "GET, POST, PUT, DELETE, OPTIONS, PATCH"
         /\ reqs[id].headers["Access-Control-Allow-Headers"] =
              "Origin, X-Requested-With, Content-Type, Accept, Authorization"
         /\ reqs[id].headers["Access-Control-Allow-Credentials"] = "true"

\* A relayed upstream response whose own Access-Control-Allow-Origin header
\* replaced the proxy's value.
C21_FailingInput ==
  \E id \in ReqIds :
    /\ reqs[id].headersSent
    /\ reqs[id].outCount = 1
    /\ reqs[id].status \in UpstreamStatuses
    /\ reqs[id].headers["Access-Control-Allow-Origin"] = "http://x"

(***************************************************************************)
(* C22.  The outbound request of a forwarded request has the method of the *)
(* inbound request and its headers, except that Host is the host of the    *)
(* matched route's target; no other header is added, dropped or changed.   *)
(***************************************************************************)
C22_MethodAndHeadersForwarded ==
  \A id \in ReqIds :
    Forwarded(reqs[id])
      => /\ reqs[id].outMethod = reqs[id].method
         /\ DOMAIN reqs[id].outHeaders = DOMAIN reqs[id].inHeaders \cup {"host"}
         /\ reqs[id].outHeaders["host"] =
              (IF reqs[id].route[1].target = "http://a" THEN "a" ELSE "b")
         /\ \A h \in DOMAIN reqs[id].inHeaders \ {"host"} :
              reqs[id].outHeaders[h] = reqs[id].inHeaders[h]

\* A POST with a Host and a second header was forwarded to a target whose
\* host differs from the inbound Host.
C22_Witness ==
  \E id \in ReqIds :
    /\ Forwarded(reqs[id])
    /\ reqs[id].method = "POST"
    /\ "accept" \in DOMAIN reqs[id].inHeaders
    /\ reqs[id].inHeaders["host"] = "proxy"
    /\ reqs[id].outHeaders["host"] = "b"

(***************************************************************************)
(* C23.  A per-request failure (404, 500, 502 or 504) is contained in that *)
(* request: the step that answers it leaves the listener Listening and the *)
(* route table unchanged, and leaves every other request, its matched      *)
(* route, outbound request and outcome, as it was.                         *)
(***************************************************************************)
FailureNames ==
  {"Not Found", "Internal Server Error", "Bad Gateway", "Gateway Timeout"}

C23_FailureContained ==
  [][\A id \in ReqIds :
       (BodyError(reqs[id]) \notin FailureNames
          /\ BodyError(reqs'[id]) \in FailureNames)
         => /\ reqs'[id].status \in {404, 500, 502, 504}
            /\ UNCHANGED <<routes, server, srv, port>>
            /\ Listening'
            /\ \A j \in ReqIds \ {id} : reqs'[j] = reqs[j]]_vars

\* One request was answered 502 while the other, in flight at the same
\* time, went on to relay its upstream's response.
C23_Witness ==
  \E a, b \in ReqIds :
    /\ BodyError(reqs[a]) = "Bad Gateway"
    /\ reqs[b].outCount = 1
    /\ reqs[b].up = "complete"
    /\ reqs[b].status = 200
    /\ reqs[b].ended
    /\ Listening

(***************************************************************************)
(* C24.  A failed bind returns the instance to Stopped: in the state in    *)
(* which a start() is rejected with a bind error isRunning() is false, and *)
(* a start() called while nothing is listening, binding or closing         *)
(* attempts to bind instead of rejecting with 'already running'.           *)
(***************************************************************************)
C24_FailedBindReturnsToStopped ==
  [][\A c \in CallIds :
       /\ (calls[c].st = "pending" /\ calls'[c].st = "rejected"
             /\ calls'[c].err \in BindErrors)
            => ~IsRunning'
       /\ (Invokes(c, "start") /\ ActiveListeners = {}
             /\ \A s \in ServerIds : ~srv[s].closing /\ srv[s].evt = "none")
            => /\ calls'[c].st = "pending"
               /\ calls'[c].phase = "listen"]_vars

\* One start() was rejected because the port is in use; nothing listens,
\* yet isRunning() is true and a later start() was rejected as already
\* running.
C24_FailingInput ==
  \E c, d \in CallIds :
    /\ calls[c].op = "start"
    /\ calls[c].st = "rejected"
    /\ calls[c].err = "EADDRINUSE"
    /\ calls[d] = Call("start", "rejected", "already running", "none", 0)
    /\ IsRunning
    /\ ~Accepting

(***************************************************************************)
(* C25.  Route paths are unique in the configuration: after any sequence   *)
(* of RouteManager.addRoute, updateRoute, removeRoute and toggleRoute      *)
(* calls, successful or rejected, no two stored entries have the same      *)
(* path.                                                                   *)
(***************************************************************************)
C25_PathsUnique ==
  \A i, j \in DOMAIN config : i # j => config[i].path # config[j].path

\* addRoute returned and the configuration holds the path '/' twice.
C25_FailingInput ==
  /\ last = Outcome("addRoute", "")
  /\ Len(config) = 2
  /\ config[1].path = <<"/">>
  /\ config[2].path = <<"/">>

(***************************************************************************)
(* C26.  Every path stored by RouteManager.addRoute or updateRoute is      *)
(* exactly '/' or does not end with '/'.                                   *)
(***************************************************************************)
C26_NoTrailingSlashStored ==
  \A i \in DOMAIN config :
    config[i].path = <<"/">> \/ ~EndsWithSlash(config[i].path)

\* A RouteManager call that was given '///' returned and the configuration
\* holds the path '//'.
C26_FailingInput ==
  /\ last.err = ""
  /\ last.op \in {"addRoute", "updateRoute"}
  /\ \E i \in DOMAIN config : config[i].path = <<"/", "/">>

(***************************************************************************)
(* C27.  A RouteManager mutation that is rejected leaves the persisted     *)
(* route list exactly as it was, and the proxy's route table is not        *)
(* replaced.                                                               *)
(***************************************************************************)
C27_RejectedChangesNothing ==
  [][last'.err # "" => config' = config /\ routes' = routes]_vars

\* updateRoute was rejected for a conflicting path; both entries are
\* stored as before.
C27_Witness ==
  /\ last = Outcome("updateRoute", "already exists")
  /\ Len(config) = 2
  /\ config[1].path # config[2].path

(***************************************************************************)
(* C28.  Once a proxy instance exists, after every completed route         *)
(* mutation through a command or webview message and after every start,    *)
(* the proxy's route table equals the stored route list: the proxy never   *)
(* listens with a table older than the last successful mutation.           *)
(***************************************************************************)
C28_TableFollowsConfiguration ==
  /\ exists => routes = config
  /\ Accepting => exists /\ routes = config

\* The instance is listening and a webview updateRoute completed after the
\* start: the proxy's table is the stored, non-empty list.
C28_Witness ==
  /\ exists
  /\ Listening
  /\ last = Outcome("updateRoutes", "")
  /\ config # <<>>
  /\ routes = config
  /\ \E i \in DOMAIN routes : ~routes[i].enabled

(***************************************************************************)
(* C29.  Matcher and forwarder agree on the prefix: whenever a route with  *)
(* path other than '/' is selected for a request path, the outbound path   *)
(* is the part of the request path after the route's normalized path       *)
(* ('/' prepended when that part does not start with '/'), also for route  *)
(* paths stored with a trailing '/'.                                       *)
(***************************************************************************)
C29_PrefixStripped ==
  \A id \in ReqIds :
    (Forwarded(reqs[id]) /\ reqs[id].route[1].path # <<"/">>)
      => LET N == NormalizedPath(reqs[id].route[1].path)
             P == reqs[id].url
             Q == reqs[id].outPath
         IN  \E rest \in SeqsUpTo(Chars, MaxPathLen) :
               /\ P = N \o rest
               /\ Q = IF rest # <<>> /\ rest[1] = "/" THEN rest
                      ELSE <<"/">> \o rest

\* The route '/a/' was selected for the request path '/a' and the outbound
\* path is still '/a'.
C29_FailingInput ==
  \E id \in ReqIds :
    /\ Forwarded(reqs[id])
    /\ reqs[id].route[1].path = <<"/", "a", "/">>
    /\ reqs[id].url = <<"/", "a">>
    /\ reqs[id].outPath = <<"/", "a">>

(***************************************************************************)
(* Readers of the route table: requests looked up against it and callers   *)
(* of getRoutes() that go on to modify the array they were given.          *)
(***************************************************************************)
\* A caller's array: its elements and whether it is the array this.routes.
GetRoutesLive(table) == [array |-> table, isThisRoutes |-> TRUE]

\* return [...this.routes]: a new array with the same elements.
GetRoutes(table) == [array |-> table, isThisRoutes |-> FALSE]

Reverse(s) == [i \in 1..Len(s) |-> s[Len(s) + 1 - i]]

ReadRoutes ==
  { Route(<<"/">>, "http://a", TRUE),
    Route(<<"/", "a">>, "http://b", TRUE),
    Route(<<"/", "a">>, "http://a", FALSE) }

ReadTables == SeqsUpTo(ReadRoutes, MaxRoutes)

ReadUrls == {<<"/", "a">>, <<"a">>}

\* What a caller does to an array: push(r), pop(), reverse(), sort by path
\* length, and length = 0.
ArrayEdits(a) ==
  {a \o <<r>> : r \in {x \in ReadRoutes : Len(a) <= MaxRoutes}}
    \cup {DropLast(a) : x \in {y \in {0} : a # <<>>}}
    \cup {Reverse(a), SortByPathLength(a), <<>>}

GetRoutesCall ==
  /\ handed = Null
  /\ handed' = Some(GetRoutes(routes))
  /\ UNCHANGED <<routes, reqs, life, config, last, exists>>

\* The caller changes its array; this.routes changes with it when it is the
\* same array.
CallerEdits(a) ==
  /\ handed # Null
  /\ a \in ArrayEdits(handed[1].array)
  /\ a # handed[1].array
  /\ handed' = Some([handed[1] EXCEPT !.array = a])
  /\ routes' = IF handed[1].isThisRoutes THEN a ELSE routes
  /\ UNCHANGED <<reqs, life, config, last, exists>>

ReadInit ==
  /\ routes \in ReadTables
  /\ reqs = [id \in ReqIds |-> IdleReq]
  /\ Started
  /\ config = <<>>
  /\ last = NoOutcome
  /\ exists = TRUE
  /\ handed = Null

ReadNext ==
  \/ \E url \in ReadUrls : Receive(1, "GET", url, ProxyHost)
  \/ GetRoutesCall
  \/ \E a \in SeqsUpTo(ReadRoutes, MaxRoutes + 1) : CallerEdits(a)

ReadSpec == ReadInit /\ [][ReadNext]_vars

\* A request was handled in this step.
Handled(id) == reqs[id].pc = "idle" /\ reqs'[id].pc # "idle"

(***************************************************************************)
(* C30.  Reading never mutates the table: a step that handles a request,   *)
(* by a lookup that filters and sorts the candidates or by building the    *)
(* 404 list of available routes, leaves the entries of this.routes and     *)
(* their order as they were, and so does a step in which a caller modifies *)
(* the array getRoutes() returned.                                         *)
(***************************************************************************)
C30_ReadingLeavesTable ==
  [][((\E id \in ReqIds : Handled(id)) \/ handed' # handed)
       => routes' = routes]_vars

\* The table holds '/' before '/a', which the lookup's sort orders the other
\* way round; a request was forwarded, and the caller's array has been
\* emptied while the table has not.
C30_Witness ==
  /\ Len(routes) = 2
  /\ routes[1].path = <<"/">>
  /\ routes[2].path = <<"/", "a">>
  /\ routes[2].enabled
  /\ SortedRoutes(routes) # routes
  /\ Forwarded(reqs[1])
  /\ handed = Some([array |-> <<>>, isThisRoutes |-> FALSE])

====
